---- MODULE Spec2Model ----
(***************************************************************************)
(* A model of tensorbase/base.py: the in-memory batching of class Data,    *)
(* and the configuration merge, construction lifecycle and restore policy  *)
(* of class Model.                                                         *)
(*                                                                         *)
(* An image is a one-pixel image whose pixel value is its position in the  *)
(* loaded data set (1, 2, ...), so images are pairwise distinct; img_norm  *)
(* is kept exact by giving its result in units of 1/max_val.               *)
(***************************************************************************)
EXTENDS Integers, Sequences, FiniteSets, TLC

\* ------------------------------------------------------------------ bounds
\* Number of (image, label) pairs load_data returns as the train set.
MaxLoaded == 3
\* Number of pairs load_data returns as the test set.
MaxTest == 1
\* Largest batch_size argument passed to a next_*_batch call.
MaxBatch == 4
\* Number of next_train_batch calls followed in one behaviour.
MaxTrainCalls == 6
\* Largest value the valid/test cursor is followed to.
MaxCursor == 4
\* Number of label classes of the modelled data set.
NumClasses == 2
\* Number of builder calls followed on one Layers object.
MaxLayerCalls == 2
\* Largest number of layers one convnet / deconvnet call is asked for.
MaxDepth == 2
\* Number of _record_training_step calls followed on one Model.
MaxSteps == 3

\* --------------------------------------------------------------- constants
\* img_norm's default max_val.
max_val == 255

VARIABLES
    \* ---- class Data
    train_images, train_labels,
    valid_images, valid_labels,
    test_images, test_labels,
    num_train_images, num_valid_images, num_test_images,
    train_epochs_completed,
    index_in_train_epoch, index_in_valid_epoch, index_in_test_epoch,
    \* what the last next_*_batch call was given and what it returned
    ret,
    \* history: number of next_train_batch calls so far
    trainCalls,
    \* history: 0 before the first next_train_batch call, B while every call
    \* so far was given batch size B, -1 once two calls differed
    trainB,
    \* history: the normalized images returned since the last rollover, in
    \* the order returned, the rollover call's batch first
    epochSeen,
    \* history: some next_*_batch call so far was given a batch size above
    \* the size of its partition
    oversized,
    \* ---- class Model: the arguments of Model(flags, config_dict) and the
    \* YAML file flags['YAML_FILE'] names
    flags, config_given, config_dict, yaml_file,
    \* config_dict as the caller passed it (config_dict is merged in place)
    config_arg,
    \* the mapping load_config_yaml returned, then self.flags
    cfg,
    \* position in Model.__init__: the stage to run next
    pc,
    \* "running", "constructed", "exit" (exit() was called) or "raise" (an
    \* exception left __init__), and the exception
    outcome, exc,
    \* the stages started and the stages completed, in order
    started, completed,
    \* the messages printed, in order
    printed,
    \* the steps of _initialize_model, in order
    init_events,
    \* _restore_slim: tf.global_variables(), what the checkpoint reader
    \* returned, and the names handed to tf.train.Saver
    model_variables, checkpoint, variables_to_restore,
    \* self.step (0 while __init__ has not set it), and what self.writer was
    \* given by add_summary, in order
    step, writer,
    \* ---- class Layers: self.input and self.count
    input, count,
    \* history: the scopes the builder's methods entered, in order
    scopes,
    \* history: the last builder call: its method, arguments and exception,
    \* the single-layer calls it made, and self.input / self.count before it
    lret,
    \* history: number of builder calls so far
    ncalls

dataVars == <<train_images, train_labels, valid_images, valid_labels,
              test_images, test_labels,
              num_train_images, num_valid_images, num_test_images,
              train_epochs_completed,
              index_in_train_epoch, index_in_valid_epoch, index_in_test_epoch,
              ret, trainCalls, trainB, epochSeen, oversized>>

modelVars == <<flags, config_given, config_dict, yaml_file, config_arg, cfg,
               pc, outcome, exc, started, completed, printed, init_events,
               model_variables, checkpoint, variables_to_restore>>

stepVars == <<step, writer>>

layerVars == <<input, count, scopes, lret, ncalls>>

vars == <<dataVars, modelVars, stepVars, layerVars>>

\* ----------------------------------------------------------------- helpers
\* Python's seq[start:end] for 0 <= start, 0 <= end: indices clamp to the
\* length, and the slice is empty when start >= end.
Min(a, b) == IF a <= b THEN a ELSE b

Slice(s, start, end) ==
    LET lo == Min(start, Len(s))
        hi == Min(end, Len(s))
    IN  IF lo >= hi THEN <<>> ELSE SubSeq(s, lo + 1, hi)

\* numpy's a[perm]: element i of the result is a[perm[i]].
Take(s, perm) == [i \in 1..Len(s) |-> s[perm[i]]]

\* A shuffle that draws positions with replacement.
Perms_withReplacement(n) == [1..n -> 1..n]

\* np.random.shuffle(np.arange(n)): any permutation of the n positions.
Perms(n) == {p \in [1..n -> 1..n] : \A i, j \in 1..n : p[i] = p[j] => i = j}

\* img_norm for one pixel: (x * (1 / max_val) - 0.5) * 2 = (2x - max_val) / max_val,
\* given as its numerator.
img_norm_px(x) == 2 * x - max_val

img_norm(x) == [i \in 1..Len(x) |-> img_norm_px(x[i])]

\* The label the data set gives image i.
LabelOf(i) == i % NumClasses

\* valid_percent as a percentage (0.0, the default 0.2, 0.5), so that
\* math.floor(len * (1 - valid_percent)) is computed in integers.
ValidPercents == {0, 20, 50}

NoRet == [op |-> "none", raised |-> FALSE, requested |-> 0, start |-> 0,
          labels |-> <<>>, images |-> <<>>, end |-> 0, batch_size |-> 0]

\* ------------------------------------------------------------------- Data
\* Data.__init__ with load_data returning nTrain train pairs and nTest test
\* pairs, and split_data.
DataInit(nTrain, nTest, vp) ==
    LET loaded_images == [i \in 1..nTrain |-> i]
        loaded_labels == [i \in 1..nTrain |-> LabelOf(i)]
        nt == (nTrain * (100 - vp)) \div 100
        nv == nTrain - nt
    IN  /\ test_images = [i \in 1..nTest |-> nTrain + i]
        /\ test_labels = [i \in 1..nTest |-> LabelOf(nTrain + i)]
        /\ num_test_images = nTest
        /\ num_train_images = nt
        /\ num_valid_images = nv
        /\ valid_images = Slice(loaded_images, 0, nv)
        /\ valid_labels = Slice(loaded_labels, 0, nv)
        /\ train_images = Slice(loaded_images, nv, nTrain)
        /\ train_labels = Slice(loaded_labels, nv, nTrain)
        /\ train_epochs_completed = 0
        /\ index_in_train_epoch = 0
        /\ index_in_valid_epoch = 0
        /\ index_in_test_epoch = 0

HistoryInit ==
    /\ ret = NoRet
    /\ trainCalls = 0
    /\ trainB = 0
    /\ epochSeen = <<>>
    /\ oversized = FALSE

\* A rollover test that already fires when the cursor reaches the end.
TrainRollover_atEnd(index, num) == index >= num

\* Whether next_train_batch takes its rollover branch.
TrainRollover(index, num) == index > num

\* An assertion that lets a batch one larger than the partition pass.
TrainAssert_offByOne(batch_size, num) == batch_size <= num + 1

\* The assertion of the rollover branch.
TrainAssert(batch_size, num) == batch_size <= num

\* Labels left in their order while the images are permuted.
shuffled_labels_unpermuted(labels, perm) == labels

\* self.train_labels[perm], perm being the permutation the images took.
shuffled_labels(labels, perm) == Take(labels, perm)

next_train_batch(batch_size) ==
    LET start0 == index_in_train_epoch
        index1 == index_in_train_epoch + batch_size
    IN
    /\ trainCalls < MaxTrainCalls
    /\ trainCalls' = trainCalls + 1
    /\ oversized' = (oversized \/ batch_size > num_train_images)
    /\ trainB' = IF trainB = 0 THEN batch_size
                 ELSE IF trainB = batch_size THEN trainB ELSE -1
    /\ IF TrainRollover(index1, num_train_images)
       THEN \E perm \in Perms(num_train_images) :
              /\ train_epochs_completed' = train_epochs_completed + 1
              /\ train_images' = Take(train_images, perm)
              /\ train_labels' = shuffled_labels(train_labels, perm)
              /\ index_in_train_epoch' = batch_size
              /\ IF TrainAssert(batch_size, num_train_images)
                 THEN /\ ret' = [op |-> "train", raised |-> FALSE,
                                 requested |-> batch_size, start |-> 0,
                                 labels |-> Slice(train_labels', 0, batch_size),
                                 images |-> img_norm(Slice(train_images', 0, batch_size)),
                                 end |-> batch_size, batch_size |-> batch_size]
                      /\ epochSeen' = ret'.images
                 ELSE /\ ret' = [op |-> "train", raised |-> TRUE,
                                 requested |-> batch_size, start |-> 0,
                                 labels |-> <<>>, images |-> <<>>,
                                 end |-> batch_size, batch_size |-> batch_size]
                      /\ epochSeen' = <<>>
       ELSE /\ index_in_train_epoch' = index1
            /\ ret' = [op |-> "train", raised |-> FALSE,
                       requested |-> batch_size, start |-> start0,
                       labels |-> Slice(train_labels, start0, index1),
                       images |-> img_norm(Slice(train_images, start0, index1)),
                       end |-> index1, batch_size |-> batch_size]
            /\ epochSeen' = epochSeen \o ret'.images
            /\ UNCHANGED <<train_epochs_completed, train_images, train_labels>>
    /\ UNCHANGED <<valid_images, valid_labels, test_images, test_labels,
                   num_train_images, num_valid_images, num_test_images,
                   index_in_valid_epoch, index_in_test_epoch>>
    /\ UNCHANGED <<modelVars, stepVars, layerVars>>

\* A clamp to what is left of the partition instead of to 1.
EffectiveBatch_toRemainder(index, batch_size, num) ==
    IF index + batch_size > num THEN num - index ELSE batch_size

\* The batch size next_valid_batch / next_test_batch goes on with.
EffectiveBatch(index, batch_size, num) ==
    IF index + batch_size > num THEN 1 ELSE batch_size

next_valid_batch(batch_size) ==
    LET start == index_in_valid_epoch
        bs == EffectiveBatch(index_in_valid_epoch, batch_size, num_valid_images)
        end == index_in_valid_epoch + bs
    IN
    /\ index_in_valid_epoch < MaxCursor
    /\ index_in_valid_epoch' = end
    /\ oversized' = (oversized \/ batch_size > num_valid_images)
    /\ ret' = [op |-> "valid", raised |-> FALSE,
               requested |-> batch_size, start |-> start,
               labels |-> Slice(valid_labels, start, end),
               images |-> img_norm(Slice(valid_images, start, end)),
               end |-> end, batch_size |-> bs]
    /\ UNCHANGED <<train_images, train_labels, valid_images, valid_labels,
                   test_images, test_labels,
                   num_train_images, num_valid_images, num_test_images,
                   train_epochs_completed, index_in_train_epoch,
                   index_in_test_epoch,
                   trainCalls, trainB, epochSeen>>
    /\ UNCHANGED <<modelVars, stepVars, layerVars>>

next_test_batch(batch_size) ==
    LET start == index_in_test_epoch
        bs == EffectiveBatch(index_in_test_epoch, batch_size, num_test_images)
        end == index_in_test_epoch + bs
    IN
    /\ index_in_test_epoch < MaxCursor
    /\ index_in_test_epoch' = end
    /\ oversized' = (oversized \/ batch_size > num_test_images)
    /\ ret' = [op |-> "test", raised |-> FALSE,
               requested |-> batch_size, start |-> start,
               labels |-> Slice(test_labels, start, end),
               images |-> img_norm(Slice(test_images, start, end)),
               end |-> end, batch_size |-> bs]
    /\ UNCHANGED <<train_images, train_labels, valid_images, valid_labels,
                   test_images, test_labels,
                   num_train_images, num_valid_images, num_test_images,
                   train_epochs_completed, index_in_train_epoch,
                   index_in_valid_epoch,
                   trainCalls, trainB, epochSeen>>
    /\ UNCHANGED <<modelVars, stepVars, layerVars>>

NextTrain == \E n \in 1..MaxBatch : next_train_batch(n)
NextValid == \E n \in 1..MaxBatch : next_valid_batch(n)
NextTest == \E n \in 1..MaxBatch : next_test_batch(n)

\* ------------------------------------------------------------ Model: values
\* The keys a configuration mapping can hold, in the order a mapping's
\* items() yields them.
KeyOrder == <<"A", "N", "YAML_FILE", "MODEL_DIRECTORY", "SAVE_DIRECTORY",
              "MODEL_RESTORE", "RUN_NUM", "NUM_EPOCHS", "RESTORE_META",
              "RESTORE_SLIM", "RESTORE_SLIM_FILE", "FILE_EPOCH", "SEED", "GPU",
              "RESTORE_DIRECTORY", "LOGGING_DIRECTORY">>

Keys == {KeyOrder[i] : i \in 1..Len(KeyOrder)}

\* The keys of a nested mapping, in items() order.
SubKeyOrder == <<"x", "y">>

SubKeys == {SubKeyOrder[i] : i \in 1..Len(SubKeyOrder)}

\* A nested mapping holds integers; 0 stands for a key it does not hold.
NoSub == [s \in SubKeys |-> 0]

\* A value of a mapping: its Python type t, its content v (a string is the
\* sequence of its pieces, an integer n is <<n>>) and, for a nested mapping
\* (an EasyDict), its entries sub. Absent stands for a key the mapping does
\* not hold.
Absent == [t |-> "absent", v |-> <<>>, sub |-> NoSub]
NoneV == [t |-> "none", v |-> <<>>, sub |-> NoSub]
IntV(n) == [t |-> "int", v |-> <<n>>, sub |-> NoSub]
StrV(s) == [t |-> "str", v |-> s, sub |-> NoSub]
DictV(sub) == [t |-> "dict", v |-> <<>>, sub |-> sub]

EmptyCfg == [k \in Keys |-> Absent]

\* key in mapping
Has(c, k) == c[k].t # "absent"

\* value == 1
IsOne(x) == x.t = "int" /\ x.v = <<1>>

\* ------------------------------------------------------ Model: config merge
\* _merge_a_into_b on a nested mapping: a's entries from position i on.
RECURSIVE merge_sub(_, _, _)
merge_sub(a, b, i) ==
    IF i > Len(SubKeyOrder) THEN [b |-> b, err |-> "none"]
    ELSE LET k == SubKeyOrder[i] IN
         IF a[k] = 0 THEN merge_sub(a, b, i + 1)
         ELSE IF b[k] = 0 THEN [b |-> b, err |-> "KeyError"]
         ELSE merge_sub(a, [b EXCEPT ![k] = a[k]], i + 1)

\* _merge_a_into_b(a, b), a an EasyDict: a's entries from position i on. b is
\* changed in place, so what was merged before an error stays merged.
RECURSIVE merge_from(_, _, _)
merge_from(a, b, i) ==
    IF i > Len(KeyOrder) THEN [b |-> b, err |-> "none", printed |-> <<>>]
    ELSE LET k == KeyOrder[i] IN
         IF ~Has(a, k) THEN merge_from(a, b, i + 1)
         ELSE IF ~Has(b, k) THEN [b |-> b, err |-> "KeyError", printed |-> <<>>]
         ELSE IF b[k].t # a[k].t
              THEN [b |-> b, err |-> "ValueError", printed |-> <<>>]
         ELSE IF a[k].t = "dict"
              THEN LET r == merge_sub(a[k].sub, b[k].sub, 1)
                       b1 == [b EXCEPT ![k] = DictV(r.b)]
                   IN  IF r.err # "none"
                       THEN [b |-> b1, err |-> r.err,
                             printed |-> <<<<"Error under config key", k>>>>]
                       ELSE merge_from(a, b1, i + 1)
              ELSE merge_from(a, [b EXCEPT ![k] = a[k]], i + 1)

merge_a_into_b(a, b) == merge_from(a, b, 1)

\* A merge that keeps the entries b already has.
merge_a_into_b_simple_keep(a, b) ==
    [k \in Keys |-> IF Has(b, k) THEN b[k] ELSE a[k]]

\* _merge_a_into_b_simple(a, b): no checks, every entry of a replaces b's.
merge_a_into_b_simple(a, b) ==
    [k \in Keys |-> IF Has(a, k) THEN a[k] ELSE b[k]]

\* cfg_from_file(yaml_filename, config_dict) for a file that exists and holds
\* a mapping.
cfg_from_file(yaml, config) == merge_a_into_b(yaml, config)

\* load_config_yaml(flags, config_dict): the mapping returned (result), what
\* config_dict holds afterwards, the exception that leaves the method (err)
\* and the messages printed.
load_config_yaml(f, given, config, yaml) ==
    IF ~given
    THEN [result |-> f, config |-> config, err |-> "none",
          printed |-> <<<<"Config File not specified. Using only input flags.", "">>>>]
    ELSE IF ~Has(f, "YAML_FILE")
    THEN [result |-> config, config |-> config, err |-> "none",
          printed |-> <<<<"Yaml File not specified. Using only input flags and config file.", "">>>>]
    ELSE IF ~yaml.exists
    THEN [result |-> EmptyCfg, config |-> config, err |-> "IOError", printed |-> <<>>]
    ELSE LET r == cfg_from_file(yaml.content, config) IN
         IF r.err = "KeyError"
         THEN [result |-> r.b, config |-> r.b, err |-> "none",
               printed |-> r.printed \o
                 <<<<"Yaml File not specified. Using only input flags and config file.", "">>>>]
         ELSE IF r.err # "none"
         THEN [result |-> EmptyCfg, config |-> r.b, err |-> r.err,
               printed |-> r.printed]
         ELSE LET m == merge_a_into_b_simple(f, r.b) IN
              [result |-> m, config |-> m, err |-> "none",
               printed |-> <<<<"Using input flags, config file, and yaml file.", "">>>>]

\* -------------------------------------------------- Model: check_dict_keys
\* crucial_keys with SAVE_DIRECTORY left out.
crucial_keys_model_only == <<"MODEL_DIRECTORY">>

crucial_keys == <<"MODEL_DIRECTORY", "SAVE_DIRECTORY">>

\* RUN_NUM treated as one more optional key.
optional_keys_and_run_num ==
    <<"RESTORE_SLIM_FILE", "RESTORE_META", "RESTORE_SLIM", "SEED", "GPU", "RUN_NUM">>

optional_keys == <<"RESTORE_SLIM_FILE", "RESTORE_META", "RESTORE_SLIM", "SEED", "GPU">>

\* The first crucial key the mapping lacks, from position i on ("" if none).
RECURSIVE first_missing(_, _)
first_missing(c, i) ==
    IF i > Len(crucial_keys) THEN ""
    ELSE IF ~Has(c, crucial_keys[i]) THEN crucial_keys[i]
    ELSE first_missing(c, i + 1)

\* The loop over optional_keys from position i on: the mapping and the
\* messages printed.
RECURSIVE fill_optional(_, _)
fill_optional(c, i) ==
    IF i > Len(optional_keys) THEN [cfg |-> c, printed |-> <<>>]
    ELSE LET k == optional_keys[i] IN
         IF Has(c, k) THEN fill_optional(c, i + 1)
         ELSE LET r == fill_optional([c EXCEPT ![k] = NoneV], i + 1) IN
              [cfg |-> r.cfg, printed |-> <<<<"was not found", k>>>> \o r.printed]

check_dict_keys(c) ==
    LET missing == first_missing(c, 1) IN
    IF missing # ""
    THEN [cfg |-> c, exit |-> TRUE, printed |-> <<<<"You must define", missing>>>>]
    ELSE LET r == fill_optional(c, 1)
             c1 == IF Has(r.cfg, "RUN_NUM") THEN r.cfg
                   ELSE [r.cfg EXCEPT !["RUN_NUM"] = IntV(0)]
             c2 == IF Has(c1, "NUM_EPOCHS") THEN c1
                   ELSE [c1 EXCEPT !["NUM_EPOCHS"] = IntV(1)]
         IN  [cfg |-> c2, exit |-> FALSE, printed |-> r.printed]

\* -------------------------------------------------- Model: _check_file_io
\* Pieces of the string literals of _check_file_io and of str(None).
PieceModel == 1001
PieceSlash == 1002
PieceNone == 1003

\* str(x) for an integer, a string or None.
str(x) ==
    IF x.t = "none" THEN <<PieceNone>> ELSE x.v

\* 'Model' + str(x) + '/'
folder_of(x) == <<PieceModel>> \o str(x) \o <<PieceSlash>>

\* _check_file_io on self.flags: the mapping afterwards and the exception
\* raised. The directory is created and stdout redirected when it completes.
check_file_io(c) ==
    IF ~Has(c, "RUN_NUM") \/ ~Has(c, "MODEL_RESTORE")
         \/ ~Has(c, "SAVE_DIRECTORY") \/ ~Has(c, "MODEL_DIRECTORY")
    THEN [cfg |-> c, err |-> "KeyError"]
    ELSE IF c["SAVE_DIRECTORY"].t # "str" \/ c["MODEL_DIRECTORY"].t # "str"
    THEN [cfg |-> c, err |-> "TypeError"]
    ELSE LET base == c["SAVE_DIRECTORY"].v \o c["MODEL_DIRECTORY"].v
             c1 == [c EXCEPT !["RESTORE_DIRECTORY"] =
                        StrV(base \o folder_of(c["MODEL_RESTORE"]))]
             c2 == [c1 EXCEPT !["LOGGING_DIRECTORY"] =
                        StrV(base \o folder_of(c["RUN_NUM"]))]
         IN  [cfg |-> c2, err |-> "none"]

\* ---------------------------------------------------- Model: restore policy
\* A variable name is the sequence of its scope components: 'model/w' is
\* <<"model", "w">>. NoName is Python's None, no key of a checkpoint's map.
NoName == <<>>

\* name_in_checkpoint with the name returned unchanged when it has no
\* 'model/' prefix.
name_in_checkpoint_or_self(name) ==
    IF Len(name) >= 2 /\ name[1] = "model" THEN Tail(name) ELSE name

\* name_in_checkpoint(var): var.op.name without its 'model/' prefix; a name
\* without the prefix falls off the end of the function, which returns None.
name_in_checkpoint(name) ==
    IF Len(name) >= 2 /\ name[1] = "model" THEN Tail(name) ELSE NoName

\* variables_to_restore is []: the identity of the mapping and a new list.
is_new_empty_list(d) == FALSE

\* The branch of _initialize_model with RESTORE_SLIM tested first.
restore_policy_slim_first(c) ==
    IF IsOne(c["RESTORE_SLIM"]) THEN "_restore_slim"
    ELSE IF IsOne(c["RESTORE_META"]) THEN "_restore_meta"
    ELSE "scratch"

\* The branch _initialize_model takes.
restore_policy(c) ==
    IF IsOne(c["RESTORE_META"]) THEN "_restore_meta"
    ELSE IF IsOne(c["RESTORE_SLIM"]) THEN "_restore_slim"
    ELSE "scratch"

\* _restore_meta: the steps taken, the exception raised and the messages.
restore_meta(c) ==
    IF ~Has(c, "FILE_EPOCH")
    THEN [events |-> <<"_restore_meta">>, kind |-> "raise", err |-> "KeyError",
          printed |-> <<>>, names |-> {}]
    ELSE [events |-> <<"_restore_meta", "import_meta_graph", "saver.restore">>,
          kind |-> "ok", err |-> "none",
          printed |-> <<<<"Model restored from", "">>>>, names |-> {}]

\* _restore_slim(variables) with the checkpoint reader's result ck and the
\* framework building (saver_ok) or refusing a Saver: the steps taken, how it
\* ends, the messages, and the names handed to the Saver.
restore_slim(variables, ck, saver_ok) ==
    LET reader_printed == IF ck.ok THEN <<>> ELSE <<<<"reader exception", "">>>> IN
    IF ~ck.ok /\ variables # {}
    THEN [events |-> <<"_restore_slim">>, kind |-> "raise", err |-> "TypeError",
          printed |-> reader_printed, names |-> {}]
    ELSE LET names == {name_in_checkpoint(v) :
                         v \in {w \in variables : name_in_checkpoint(w) \in ck.names}}
         IN
         IF is_new_empty_list(names)
         THEN [events |-> <<"_restore_slim">>, kind |-> "exit", err |-> "SystemExit",
               printed |-> reader_printed \o
                 <<<<"Check the SLIM checkpoint filename. No model variables matched the checkpoint variables.", "">>>>,
               names |-> names]
         ELSE IF ~saver_ok
         THEN [events |-> <<"_restore_slim", "tf.train.Saver">>, kind |-> "raise",
               err |-> "ValueError", printed |-> reader_printed, names |-> names]
         ELSE [events |-> <<"_restore_slim", "tf.train.Saver", "saver.restore">>,
               kind |-> "ok", err |-> "none",
               printed |-> reader_printed \o <<<<"Model restored from", "">>>>,
               names |-> names]

\* ------------------------------------------------------- Model: lifecycle
\* An order of construction with _network and _optimizer exchanged.
init_order_swapped ==
    <<"load_config_yaml", "check_dict_keys", "_check_file_io", "_data",
      "_set_seed", "_optimizer", "_network", "_summaries",
      "_set_tf_functions", "_initialize_model">>

\* The calls of Model.__init__, in order.
init_order ==
    <<"load_config_yaml", "check_dict_keys", "_check_file_io", "_data",
      "_set_seed", "_network", "_optimizer", "_summaries",
      "_set_tf_functions", "_initialize_model">>

\* The call after stage s ("done" after the last).
next_stage(s) ==
    LET i == CHOOSE j \in 1..Len(init_order) : init_order[j] = s IN
    IF i = Len(init_order) THEN "done" ELSE init_order[i + 1]

At(s) == pc = s /\ outcome = "running"

\* Stage s ran to its end.
Complete(s) ==
    /\ started' = Append(started, s)
    /\ completed' = Append(completed, s)
    /\ pc' = next_stage(s)
    /\ outcome' = IF next_stage(s) = "done" THEN "constructed" ELSE "running"
    /\ exc' = exc

\* Stage s ended the construction: kind is "exit" or "raise".
Abort(s, kind, e) ==
    /\ started' = Append(started, s)
    /\ completed' = completed
    /\ pc' = pc
    /\ outcome' = kind
    /\ exc' = e

LoadConfigYaml ==
    /\ At("load_config_yaml")
    /\ LET r == load_config_yaml(flags, config_given, config_dict, yaml_file) IN
       /\ config_dict' = r.config
       /\ printed' = printed \o r.printed
       /\ IF r.err = "none"
          THEN cfg' = r.result /\ Complete("load_config_yaml")
          ELSE cfg' = cfg /\ Abort("load_config_yaml", "raise", r.err)
    /\ UNCHANGED <<flags, config_given, yaml_file, config_arg, init_events,
                   model_variables, checkpoint, variables_to_restore>>
    /\ UNCHANGED <<dataVars, stepVars, layerVars>>

\* The mapping check_dict_keys fills in is the one load_config_yaml returned:
\* flags itself, or config_dict.
CheckDictKeys ==
    /\ At("check_dict_keys")
    /\ LET r == check_dict_keys(cfg) IN
       /\ cfg' = r.cfg
       /\ printed' = printed \o r.printed
       /\ IF config_given
          THEN config_dict' = r.cfg /\ flags' = flags
          ELSE flags' = r.cfg /\ config_dict' = config_dict
       /\ IF r.exit
          THEN Abort("check_dict_keys", "exit", "SystemExit") /\ step' = step
          ELSE Complete("check_dict_keys") /\ step' = 1
    /\ UNCHANGED <<config_given, yaml_file, config_arg, init_events,
                   model_variables, checkpoint, variables_to_restore, writer>>
    /\ UNCHANGED <<dataVars, layerVars>>

CheckFileIo ==
    /\ At("_check_file_io")
    /\ LET r == check_file_io(cfg) IN
       /\ cfg' = r.cfg
       /\ IF config_given
          THEN config_dict' = r.cfg /\ flags' = flags
          ELSE flags' = r.cfg /\ config_dict' = config_dict
       /\ IF r.err = "none"
          THEN /\ Complete("_check_file_io")
               /\ printed' = Append(printed, <<"flags", "">>)
          ELSE /\ Abort("_check_file_io", "raise", r.err)
               /\ printed' = printed
    /\ UNCHANGED <<config_given, yaml_file, config_arg, init_events,
                   model_variables, checkpoint, variables_to_restore>>
    /\ UNCHANGED <<dataVars, stepVars, layerVars>>

\* _data, _network, _optimizer: NotImplementedError unless the subclass
\* defines the hook.
Hook(s) ==
    /\ At(s)
    /\ \E defined \in BOOLEAN :
          IF defined THEN Complete(s) ELSE Abort(s, "raise", "NotImplementedError")
    /\ UNCHANGED <<flags, config_given, config_dict, yaml_file, config_arg, cfg,
                   printed, init_events,
                   model_variables, checkpoint, variables_to_restore>>
    /\ UNCHANGED <<dataVars, stepVars, layerVars>>

DataHook == Hook("_data")
NetworkHook == Hook("_network")
OptimizerHook == Hook("_optimizer")

\* _set_seed, _summaries, _set_tf_functions: calls into the framework that
\* leave the state of the model alone.
Plain(s) ==
    /\ At(s)
    /\ Complete(s)
    /\ UNCHANGED <<flags, config_given, config_dict, yaml_file, config_arg, cfg,
                   printed, init_events,
                   model_variables, checkpoint, variables_to_restore>>
    /\ UNCHANGED <<dataVars, stepVars, layerVars>>

SetSeed == Plain("_set_seed")
Summaries == Plain("_summaries")
SetTfFunctions == Plain("_set_tf_functions")

\* tf.global_variables(): the variables of the graph the subclass built.
VariableSets == SUBSET {<<"model", "w">>, <<"model", "c">>, <<"b">>}

\* What get_variables_in_checkpoint_file returns: the checkpoint's names, or
\* None when the reader raised.
Checkpoints ==
    {[ok |-> TRUE, names |-> n] : n \in SUBSET {<<"w">>, <<"b">>}}
      \cup {[ok |-> FALSE, names |-> {}]}

InitializeModel ==
    /\ At("_initialize_model")
    /\ LET first == <<"local_variables_initializer", "global_variables_initializer">>
           policy == restore_policy(cfg)
       IN
       IF policy = "_restore_meta"
       THEN LET r == restore_meta(cfg) IN
            /\ init_events' = first \o r.events
            /\ printed' = printed \o <<<<"Restoring from .meta file", "">>>> \o r.printed
            /\ IF r.kind = "ok" THEN Complete("_initialize_model")
               ELSE Abort("_initialize_model", r.kind, r.err)
            /\ UNCHANGED <<model_variables, checkpoint, variables_to_restore>>
       ELSE IF policy = "_restore_slim"
       THEN \E variables \in VariableSets, ck \in Checkpoints, saver_ok \in BOOLEAN :
            LET r == restore_slim(variables, ck, saver_ok) IN
            \* the reader raises on a file name that is not a string, and
            \* the framework refuses a Saver only for an empty variable list
            /\ ck.ok => cfg["RESTORE_SLIM_FILE"].t = "str"
            /\ saver_ok \/ r.names = {}
            /\ model_variables' = variables
            /\ checkpoint' = ck
            /\ variables_to_restore' = r.names
            /\ init_events' = first \o r.events
            /\ printed' = printed \o <<<<"Restoring TF-Slim Model.", "">>>> \o r.printed
            /\ IF r.kind = "ok" THEN Complete("_initialize_model")
               ELSE Abort("_initialize_model", r.kind, r.err)
       ELSE /\ init_events' = Append(first, "scratch")
            /\ printed' = Append(printed, <<"Model training from scratch.", "">>)
            /\ Complete("_initialize_model")
            /\ UNCHANGED <<model_variables, checkpoint, variables_to_restore>>
    /\ UNCHANGED <<flags, config_given, config_dict, yaml_file, config_arg, cfg>>
    /\ UNCHANGED <<dataVars, stepVars, layerVars>>

\* ------------------------------------------------- Model: training steps
\* A step counter that moves on by two.
step_after_skip(s) == s + 2

\* self.step += 1
step_after(s) == s + 1

\* The summaries a caller records.
SummaryValues == {"loss", "accuracy"}

\* _record_training_step(summary), called on a constructed Model.
record_training_step(summary) ==
    /\ outcome = "constructed"
    /\ step <= MaxSteps
    /\ writer' = Append(writer, [summary |-> summary, global_step |-> step])
    /\ step' = step_after(step)
    /\ UNCHANGED <<modelVars, dataVars, layerVars>>

RecordTrainingStep == \E summary \in SummaryValues : record_training_step(summary)

NextModel ==
    \/ LoadConfigYaml
    \/ CheckDictKeys
    \/ CheckFileIo
    \/ DataHook
    \/ SetSeed
    \/ NetworkHook
    \/ OptimizerHook
    \/ Summaries
    \/ SetTfFunctions
    \/ InitializeModel
    \/ RecordTrainingStep

\* ----------------------------------------------------------------- Layers
\* The kinds Layers.count counts.
LayerKinds == {"conv", "deconv", "fc", "flat", "mp", "up", "ap", "rn"}

\* A tensor, as far as the builder reads it: its rank, get_shape()[-1]
\* (channels of a 4-D map, nodes of a 2-D one; 0 once flatten multiplied
\* sizes the builder does not read elsewhere), and the operations that made
\* it, in order.  A filter size of 0 in an operation stands for the width of
\* its input map.
Tensor(c) == [rank |-> 4, channels |-> c, ops |-> <<>>]

\* One framework operation: its name, the scope 'prefix' + str(n) as the pair
\* <<prefix, n>> (no prefix ends in a digit, so the pair is the string), the
\* inner scope or variable name, its numbers, its padding, and for a sum of
\* two tensors the operations of the other operand.
Op(name, scope, at, attr, pad) ==
    [op |-> name, scope |-> scope, at |-> at, attr |-> attr, pad |-> pad,
     other |-> <<>>]

Apply(x, o) == [x EXCEPT !.ops = Append(@, o)]

\* What one builder call leaves behind.
Built(x, cnt, scope, e) == [input |-> x, count |-> cnt, scope |-> scope, err |-> e]

\* const_variable(name, shape, value, trainable): no parameter has a default.
const_variable_parameters == {"name", "shape", "value", "trainable"}

\* Whether a call naming these keyword arguments binds every parameter
\* (TypeError otherwise).
const_variable_binds(arguments) == const_variable_parameters \subseteq arguments

\* batch norm, bias, scale and activation as conv2d, deconv2d and fc apply
\* them after their own operation; b_value and s_value are <<>> for None.
finish_layer(x, scope, a, bn_type) ==
    LET given == {"name", "shape", "value", "trainable"}
        t1 == IF a.bn THEN Apply(x, Op("batch_norm", scope, bn_type, <<>>, "")) ELSE x
        t2 == IF a.b_value # <<>>
              THEN Apply(t1, Op("add", scope, "bias", a.b_value, "")) ELSE t1
        t3 == IF a.s_value # <<>>
              THEN Apply(t2, Op("multiply", scope, "scale", a.s_value, "")) ELSE t2
        t4 == IF a.activation_fn # "none"
              THEN Apply(t3, Op(a.activation_fn, scope, "", <<>>, "")) ELSE t3
    IN  IF a.b_value # <<>> /\ ~const_variable_binds(given) THEN [t |-> t1, err |-> "TypeError"]
        ELSE IF a.s_value # <<>> /\ ~const_variable_binds(given) THEN [t |-> t2, err |-> "TypeError"]
        ELSE [t |-> t4, err |-> "none"]

conv2d(x, cnt, a) ==
    LET n == cnt["conv"] + 1
        cnt1 == [cnt EXCEPT !["conv"] = n]
        scope == <<"conv_", n>>
    IN  IF x.rank # 4 THEN Built(x, cnt1, scope, "IndexError")
        ELSE
        LET input_channels == x.channels
            padding == IF a.filter_size = 0 THEN "VALID" ELSE a.padding
            conv == [rank |-> 4, channels |-> a.output_channels,
                     ops |-> Append(x.ops,
                               Op("conv2d", scope, "weights",
                                  <<a.filter_size, input_channels,
                                    a.output_channels, a.stride>>, padding))]
            r == finish_layer(conv, scope, a, "conv")
        IN  Built(r.t, cnt1, scope, r.err)

deconv2d(x, cnt, a) ==
    LET n == cnt["deconv"] + 1
        cnt1 == [cnt EXCEPT !["deconv"] = n]
        scope == <<"deconv_", n>>
    IN  IF x.rank # 4 THEN Built(x, cnt1, scope, "IndexError")
        ELSE
        LET input_channels == x.channels
            deconv == [rank |-> 4, channels |-> a.output_channels,
                       ops |-> Append(x.ops,
                                 Op("conv2d_transpose", scope, "weights",
                                    <<a.filter_size, a.output_channels,
                                      input_channels, a.stride>>, a.padding))]
            r == finish_layer(deconv, scope, a, "conv")
        IN  Built(r.t, cnt1, scope, r.err)

\* keep_prob in percent: 100 is Python's 1.
dropout(x, scope, keep_prob) ==
    IF keep_prob # 100 THEN Apply(x, Op("dropout", scope, "", <<keep_prob>>, "")) ELSE x

flatten(x, cnt, keep_prob) ==
    LET n == cnt["flat"] + 1
        cnt1 == [cnt EXCEPT !["flat"] = n]
        scope == <<"flat_", n>>
    IN  IF x.rank # 4 THEN Built(x, cnt1, scope, "IndexError")
        ELSE
        LET flat == [rank |-> 2, channels |-> 0,
                     ops |-> Append(x.ops, Op("reshape", scope, "", <<>>, ""))]
        IN  Built(dropout(flat, scope, keep_prob), cnt1, scope, "none")

fc(x, cnt, a) ==
    LET n == cnt["fc"] + 1
        cnt1 == [cnt EXCEPT !["fc"] = n]
        scope == <<"fc_", n>>
        flat == IF x.rank = 4
                THEN [rank |-> 2, channels |-> 0,
                      ops |-> Append(x.ops, Op("reshape", scope, "", <<>>, ""))]
                ELSE x
        input_nodes == flat.channels
        mm == [rank |-> 2, channels |-> a.output_nodes,
               ops |-> Append(flat.ops,
                         Op("matmul", scope, "weights",
                            <<input_nodes, a.output_nodes>>, ""))]
        r == finish_layer(mm, scope, a, "fc")
    IN  IF r.err # "none" THEN Built(r.t, cnt1, scope, r.err)
        ELSE Built(dropout(r.t, scope, a.keep_prob), cnt1, scope, "none")

\* The pooling both maxpool and avgpool apply: s is <<>> for None; a k of 0
\* stands for the whole map.
pool(x, scope, name, a) ==
    LET k1 == IF a.globe THEN 0 ELSE a.k
        s1 == IF a.globe THEN 1 ELSE IF a.s = <<>> THEN a.k ELSE a.s[1]
        padding == IF a.globe THEN "VALID" ELSE "SAME"
    IN  IF x.rank # 4 THEN [t |-> x, err |-> IF a.globe THEN "IndexError" ELSE "ValueError"]
        ELSE [t |-> Apply(x, Op(name, scope, "", <<k1, s1>>, padding)), err |-> "none"]

maxpool(x, cnt, a) ==
    LET n == cnt["mp"] + 1
        cnt1 == [cnt EXCEPT !["mp"] = n]
        scope == <<"maxpool_", cnt1["mp"]>>
        r == pool(x, scope, "max_pool", a)
    IN  Built(r.t, cnt1, scope, r.err)

avgpool(x, cnt, a) ==
    LET n == cnt["ap"] + 1
        cnt1 == [cnt EXCEPT !["ap"] = n]
        scope == <<"avgpool_", cnt1["mp"]>>
        r == pool(x, scope, "avg_pool", a)
    IN  Built(r.t, cnt1, scope, r.err)

\* The keyword arguments res_layer names in its const_variable calls.
res_layer_bias_arguments == {"name", "shape", "value"}

\* batch norm, activation, convolution, bias: one convolution of the main
\* path, in inner scope at.
res_conv(x, scope, at, activation_fn, attr) ==
    LET t1 == Apply(x, Op("batch_norm", scope, at, <<>>, ""))
        t2 == Apply(t1, Op(activation_fn, scope, at, <<>>, ""))
    IN  [rank |-> 4, channels |-> attr[3],
         ops |-> Append(t2.ops, Op("conv2d", scope, at, attr, "SAME"))]

res_bias(x, scope, at) == Apply(x, Op("add", scope, at, <<0>>, ""))

res_layer(x, cnt, a) ==
    LET n == cnt["rn"] + 1
        cnt1 == [cnt EXCEPT !["rn"] = n]
        scope == <<"resnet_", n>>
        bias_binds == const_variable_binds(res_layer_bias_arguments)
    IN  IF x.rank # 4 THEN Built(x, cnt1, scope, "IndexError")
        ELSE
        LET input_channels == x.channels
            project == (a.stride # 1) \/ (input_channels # a.output_channels)
            additive_output ==
                IF project
                THEN res_bias([rank |-> 4, channels |-> a.output_channels,
                               ops |-> Append(x.ops,
                                         Op("conv2d", scope, "conv0",
                                            <<1, input_channels,
                                              a.output_channels, a.stride>>,
                                            "SAME"))],
                              scope, "conv0")
                ELSE x
            fs == IF a.bottle THEN 1 ELSE a.filter_size
            oc == IF a.bottle THEN a.output_channels \div 4 ELSE a.output_channels
            conv1 == res_conv(x, scope, "conv1", a.activation_fn,
                              <<fs, input_channels, oc, a.stride>>)
            out1 == res_bias(conv1, scope, "conv1")
            conv2 == res_conv(out1, scope, "conv2", a.activation_fn,
                              <<a.filter_size, out1.channels, oc, 1>>)
            out2 == res_bias(conv2, scope, "conv2")
            conv3 == res_conv(out2, scope, "conv3", a.activation_fn,
                              <<1, out2.channels, a.output_channels, 1>>)
            out3 == res_bias(conv3, scope, "conv3")
            main == IF a.bottle THEN out3 ELSE out2
            sum == [Op("add_tensors", scope, "", <<>>, "")
                      EXCEPT !.other = additive_output.ops]
        IN  IF project /\ ~bias_binds THEN Built(x, cnt1, scope, "TypeError")
            ELSE IF ~bias_binds THEN Built(conv1, cnt1, scope, "TypeError")
            ELSE Built(Apply(main, sum), cnt1, scope, "none")

\* The per-layer lists of convnet and deconvnet besides the filter sizes, in
\* the order their lengths are asserted.
StackLists ==
    <<"output_channels", "stride", "padding", "activation_fn", "b_value",
      "s_value", "bn">>

\* Only the first list is compared with the depth.
lengths_agree_first_only(depth, len) == len["output_channels"] = depth

\* The assertions of convnet and deconvnet: len[p] is the length of list p
\* after the defaults were filled in.
lengths_agree(depth, len) ==
    \A i \in 1..Len(StackLists) : len[StackLists[i]] = depth

\* The value convnet and deconvnet put at every position of a list passed
\* as None.
stack_default(p) ==
    CASE p = "stride" -> 1
      [] p = "padding" -> "SAME"
      [] p = "activation_fn" -> "relu"
      [] p = "b_value" -> <<0>>
      [] p = "s_value" -> <<1>>
      [] p = "bn" -> TRUE

\* The lists after the defaults: lists[p] is <<>> paired with given FALSE
\* for a list passed as None.
stack_fill(depth, lists) ==
    [p \in DOMAIN lists |->
        IF lists[p].given THEN lists[p].items
        ELSE [l \in 1..depth |-> stack_default(p)]]

\* The keyword arguments of the l-th single-layer call.
stack_arguments(filter_size, filled, l) ==
    [filter_size |-> filter_size[l],
     output_channels |-> filled["output_channels"][l],
     stride |-> filled["stride"][l],
     padding |-> filled["padding"][l],
     activation_fn |-> filled["activation_fn"][l],
     b_value |-> filled["b_value"][l],
     s_value |-> filled["s_value"][l],
     bn |-> filled["bn"][l]]

\* for l in range(depth), from layer l on: r is the builder so far, with the
\* scopes entered and the calls made.  Indexing a list past its end is an
\* IndexError.
RECURSIVE stack_layers(_, _, _, _, _, _)
stack_layers(method, filter_size, filled, depth, l, r) ==
    IF l > depth \/ r.err # "none" THEN r
    ELSE IF \E p \in DOMAIN filled : Len(filled[p]) < l
    THEN [r EXCEPT !.err = "IndexError"]
    ELSE LET a == stack_arguments(filter_size, filled, l)
             b == IF method = "conv2d" THEN conv2d(r.input, r.count, a)
                  ELSE deconv2d(r.input, r.count, a)
         IN  stack_layers(method, filter_size, filled, depth, l + 1,
                          [input |-> b.input, count |-> b.count,
                           scopes |-> Append(r.scopes, b.scope),
                           invoked |-> Append(r.invoked, a),
                           err |-> b.err])

\* convnet (method "conv2d") and deconvnet (method "deconv2d").
stack(method, x, cnt, filter_size, lists) ==
    LET depth == Len(filter_size)
        filled == stack_fill(depth, lists)
        len == [p \in DOMAIN filled |-> Len(filled[p])]
        r0 == [input |-> x, count |-> cnt, scopes |-> <<>>, invoked |-> <<>>,
               err |-> "none"]
    IN  IF ~lengths_agree(depth, len) THEN [r0 EXCEPT !.err = "AssertionError"]
        ELSE stack_layers(method, filter_size, filled, depth, 1, r0)

convnet(x, cnt, filter_size, lists) == stack("conv2d", x, cnt, filter_size, lists)

deconvnet(x, cnt, filter_sizes, lists) == stack("deconv2d", x, cnt, filter_sizes, lists)

\* ---- the calls made on one builder
\* The arguments the single-layer calls are made with.
ConvDefaults ==
    [filter_size |-> 3, output_channels |-> 4, stride |-> 1, padding |-> "SAME",
     bn |-> TRUE, activation_fn |-> "relu", b_value |-> <<0>>, s_value |-> <<1>>]

ConvArguments ==
    {ConvDefaults,
     [ConvDefaults EXCEPT !.filter_size = 0],
     [ConvDefaults EXCEPT !.output_channels = 8, !.stride = 2, !.bn = FALSE,
                          !.activation_fn = "none", !.b_value = <<>>,
                          !.s_value = <<>>]}

DeconvArguments ==
    {ConvDefaults,
     [ConvDefaults EXCEPT !.stride = 2, !.padding = "VALID"]}

FcDefaults ==
    [output_nodes |-> 2, keep_prob |-> 100, activation_fn |-> "relu",
     b_value |-> <<0>>, s_value |-> <<1>>, bn |-> TRUE]

FcArguments ==
    {FcDefaults,
     [FcDefaults EXCEPT !.keep_prob = 50, !.bn = FALSE, !.b_value = <<>>]}

PoolArguments ==
    {[k |-> 2, s |-> <<>>, globe |-> FALSE],
     [k |-> 2, s |-> <<1>>, globe |-> FALSE],
     [k |-> 2, s |-> <<>>, globe |-> TRUE]}

ResArguments ==
    {[output_channels |-> oc, filter_size |-> 3, stride |-> s,
      activation_fn |-> "relu", bottle |-> b] :
        oc \in {4, 8}, s \in {1, 2}, b \in BOOLEAN}

\* The filter sizes of a stack of depth layers, and entry l of a supplied
\* list p: every position of every list holds a value of its own.
FilterSizes(depth) == [l \in 1..depth |-> 2 * l - 1]

Entry(p, l) ==
    CASE p = "output_channels" -> 4 * l
      [] p = "stride" -> l + 1
      [] p = "padding" -> IF l % 2 = 1 THEN "VALID" ELSE "SAME"
      [] p = "activation_fn" -> IF l % 2 = 1 THEN "tanh" ELSE "none"
      [] p = "b_value" -> IF l % 2 = 1 THEN <<>> ELSE <<l>>
      [] p = "s_value" -> <<l + 1>>
      [] p = "bn" -> l % 2 = 0

ListNames == {StackLists[i] : i \in 1..Len(StackLists)}

NoList == [given |-> FALSE, items |-> <<>>]

ListOf(p, n) == [given |-> TRUE, items |-> [l \in 1..n |-> Entry(p, l)]]

\* The lists of one convnet / deconvnet call: the optional lists all left
\* out or all supplied, every list of the depth's length or one supplied
\* list one entry short or one entry long.
StackArguments(depth) ==
    LET bases == {[p \in ListNames |->
                     IF p = "output_channels" \/ supplied
                     THEN ListOf(p, depth) ELSE NoList] : supplied \in BOOLEAN}
    IN  bases \cup
        UNION {{[b EXCEPT ![p] = ListOf(p, depth + d)] :
                   p \in {q \in ListNames : b[q].given}, d \in {-1, 1}} :
               b \in bases}

NoCall ==
    [op |-> "none", err |-> "none", args |-> <<>>, invoked |-> <<>>,
     input0 |-> Tensor(0), count0 |-> [k \in LayerKinds |-> 0]]

\* Layers(x)
LayersInit(x) ==
    /\ input = x
    /\ count = [k \in LayerKinds |-> 0]
    /\ scopes = <<>>
    /\ lret = NoCall
    /\ ncalls = 0

\* One call of a builder method: b is what it leaves behind.
Call(op, args, b, entered, invoked) ==
    /\ ncalls < MaxLayerCalls
    /\ ncalls' = ncalls + 1
    /\ input' = b.input
    /\ count' = b.count
    /\ scopes' = scopes \o entered
    /\ lret' = [op |-> op, err |-> b.err, args |-> args, invoked |-> invoked,
                input0 |-> input, count0 |-> count]
    /\ UNCHANGED <<dataVars, modelVars, stepVars>>

Conv2d ==
    \E a \in ConvArguments :
        LET b == conv2d(input, count, a) IN Call("conv2d", a, b, <<b.scope>>, <<>>)

Deconv2d ==
    \E a \in DeconvArguments :
        LET b == deconv2d(input, count, a) IN Call("deconv2d", a, b, <<b.scope>>, <<>>)

Flatten ==
    \E keep_prob \in {100, 50} :
        LET b == flatten(input, count, keep_prob)
        IN  Call("flatten", [keep_prob |-> keep_prob], b, <<b.scope>>, <<>>)

Fc ==
    \E a \in FcArguments :
        LET b == fc(input, count, a) IN Call("fc", a, b, <<b.scope>>, <<>>)

Maxpool ==
    \E a \in PoolArguments :
        LET b == maxpool(input, count, a) IN Call("maxpool", a, b, <<b.scope>>, <<>>)

Avgpool ==
    \E a \in PoolArguments :
        LET b == avgpool(input, count, a) IN Call("avgpool", a, b, <<b.scope>>, <<>>)

ResLayer ==
    \E a \in ResArguments :
        LET b == res_layer(input, count, a) IN Call("res_layer", a, b, <<b.scope>>, <<>>)

Convnet ==
    \E depth \in 1..MaxDepth :
        \E lists \in StackArguments(depth) :
            LET b == convnet(input, count, FilterSizes(depth), lists)
            IN  Call("convnet", [filter_size |-> FilterSizes(depth), lists |-> lists],
                     b, b.scopes, b.invoked)

Deconvnet ==
    \E depth \in 1..MaxDepth :
        \E lists \in StackArguments(depth) :
            LET b == deconvnet(input, count, FilterSizes(depth), lists)
            IN  Call("deconvnet", [filter_size |-> FilterSizes(depth), lists |-> lists],
                     b, b.scopes, b.invoked)

NextLayers ==
    \/ Conv2d
    \/ Deconv2d
    \/ Flatten
    \/ Fc
    \/ Maxpool
    \/ Avgpool
    \/ ResLayer
    \/ Convnet
    \/ Deconvnet

\* ------------------------------------------------------------------- Init
\* The state of a Model before Model.__init__ runs, called as
\* Model(f, c) (config_dict None when given is false) with YAML file y.
ModelInit(f, given, c, y) ==
    /\ flags = f
    /\ config_given = given
    /\ config_dict = c
    /\ config_arg = c
    /\ yaml_file = y
    /\ cfg = EmptyCfg
    /\ pc = "load_config_yaml"
    /\ outcome = "running"
    /\ exc = "none"
    /\ started = <<>>
    /\ completed = <<>>
    /\ printed = <<>>
    /\ init_events = <<>>
    /\ model_variables = {}
    /\ checkpoint = [ok |-> FALSE, names |-> {}]
    /\ variables_to_restore = {}
    /\ step = 0
    /\ writer = <<>>

\* A YAML file that does not exist, and one that holds mapping m.
NoFile == [exists |-> FALSE, content |-> EmptyCfg]
FileOf(m) == [exists |-> TRUE, content |-> m]

\* The values source src (1 flags, 2 YAML file, 3 config_dict) gives a key:
\* every value names its source, so a merged value shows where it came from.
Scalars(src) == {Absent, IntV(src), StrV(<<src>>)}

Nesteds(src) ==
    {Absent, IntV(src)}
      \cup {DictV([s \in SubKeys |-> IF s \in S THEN src ELSE 0]) : S \in SUBSET SubKeys}

\* Mappings over the keys A (a scalar) and N (a scalar or a nested mapping).
GenericMaps(src) ==
    {[k \in Keys |-> IF k = "A" THEN a ELSE IF k = "N" THEN n ELSE Absent] :
        a \in Scalars(src), n \in Nesteds(src)}

\* The YAML file is read only when config_dict is given and flags name it.
Arguments(f, named, given, c, y) ==
    /\ ~given => c = EmptyCfg
    /\ ~(given /\ named) => y = NoFile
    /\ ModelInit([f EXCEPT !["YAML_FILE"] = IF named THEN StrV(<<1>>) ELSE Absent],
                 given, c, y)

\* No Data object under use.
DataIdle == DataInit(1, 0, 0) /\ HistoryInit

\* No Model under construction.
ModelIdle == ModelInit(EmptyCfg, FALSE, EmptyCfg, NoFile)

\* No Layers object under use.
LayersIdle == LayersInit(Tensor(0))

InitData ==
    /\ \E nTrain \in 1..MaxLoaded, nTest \in 0..MaxTest, vp \in ValidPercents :
          DataInit(nTrain, nTest, vp)
    /\ HistoryInit
    /\ ModelIdle
    /\ LayersIdle

InitConfig ==
    /\ \E f \in GenericMaps(1), named \in BOOLEAN, given \in BOOLEAN,
          c \in GenericMaps(3),
          y \in {NoFile} \cup {FileOf(m) : m \in GenericMaps(2)} :
          Arguments(f, named, given, c, y)
    /\ DataIdle
    /\ LayersIdle

\* Flags over the keys the construction reads.
LifecycleFlags ==
    {[k \in Keys |->
        CASE k = "MODEL_DIRECTORY" -> md
          [] k = "SAVE_DIRECTORY" -> sd
          [] k = "MODEL_RESTORE" -> mr
          [] k = "RESTORE_META" -> rm
          [] k = "RESTORE_SLIM" -> rs
          [] k = "FILE_EPOCH" -> fe
          [] k = "RESTORE_SLIM_FILE" -> rsf
          [] OTHER -> Absent] :
        md \in {Absent, StrV(<<1>>)}, sd \in {Absent, StrV(<<1>>)},
        mr \in {Absent, IntV(0)},
        rm \in {Absent, IntV(0), IntV(1)}, rs \in {Absent, IntV(0), IntV(1)},
        fe \in {Absent, IntV(1)}, rsf \in {Absent, StrV(<<1>>)}}

LifecycleDicts ==
    {EmptyCfg,
     [EmptyCfg EXCEPT !["SAVE_DIRECTORY"] = StrV(<<3>>)],
     [EmptyCfg EXCEPT !["SAVE_DIRECTORY"] = StrV(<<3>>),
                      !["MODEL_DIRECTORY"] = StrV(<<3>>),
                      !["MODEL_RESTORE"] = IntV(0)],
     [EmptyCfg EXCEPT !["SAVE_DIRECTORY"] = StrV(<<3>>),
                      !["MODEL_DIRECTORY"] = StrV(<<3>>),
                      !["RUN_NUM"] = IntV(3),
                      !["SEED"] = IntV(3)]}

LifecycleFiles ==
    {NoFile, FileOf(EmptyCfg),
     FileOf([EmptyCfg EXCEPT !["SAVE_DIRECTORY"] = StrV(<<2>>)])}

InitLifecycle ==
    /\ \E f \in LifecycleFlags, named \in BOOLEAN, given \in BOOLEAN,
          c \in LifecycleDicts, y \in LifecycleFiles :
          Arguments(f, named, given, c, y)
    /\ DataIdle
    /\ LayersIdle

\* ------------------------------------------------------------------ specs
\* next_train_batch called any number of times, with any batch sizes.
SpecTrain == InitData /\ [][NextTrain]_vars

\* next_valid_batch and next_test_batch called in any order, with any batch
\* sizes.
NextEval == NextValid \/ NextTest

SpecEval == InitData /\ [][NextEval]_vars

\* load_config_yaml applied to flags, config_dict and a YAML file.
SpecConfig == InitConfig /\ [][LoadConfigYaml]_vars

\* The construction of a Model, and the training steps recorded on it.
SpecModel == InitLifecycle /\ [][NextModel]_vars

\* The input tensors a builder is made on: 4-D maps of 3 or 4 channels.
InitLayers ==
    /\ \E c \in {3, 4} : LayersInit(Tensor(c))
    /\ DataIdle
    /\ ModelIdle

\* Builder methods called in any order on one Layers object.
SpecLayers == InitLayers /\ [][NextLayers]_vars

\* ------------------------------------------------------------ claims: Data
\* Every next_train_batch call so far was given the same batch size B, with
\* 1 <= B <= S.
FixedB == trainB >= 1 /\ trainB <= num_train_images

\* The epoch begun by a rollover has returned all its batches: the next call
\* with the same batch size rolls over.
EpochComplete ==
    /\ FixedB
    /\ train_epochs_completed >= 1
    /\ TrainRollover(index_in_train_epoch + trainB, num_train_images)

NoDuplicates(s) == \A i, j \in 1..Len(s) : s[i] = s[j] => i = j

SameElements(s, t) ==
    /\ Len(s) = Len(t)
    /\ {s[i] : i \in 1..Len(s)} = {t[i] : i \in 1..Len(t)}

\* Number of elements a full epoch of batches of size B returns.
WholeBatches == (num_train_images \div trainB) * trainB

\* C1 (as stated): with a fixed batch size B, 1 <= B <= S, the batches of one
\* epoch together contain every element of the train partition exactly once.
C1_EveryElementOncePerEpoch ==
    EpochComplete =>
        /\ NoDuplicates(epochSeen)
        /\ SameElements(epochSeen, img_norm(train_images))

\* C1 (amended): with a fixed batch size B, 1 <= B <= S, the batches of one
\* epoch together contain the first floor(S/B)*B elements of the epoch's
\* shuffled order, each exactly once; the last S mod B elements are returned
\* by no batch of the epoch, so every element is covered exactly when B
\* divides S.
C1_EpochCoversWholeBatches ==
    EpochComplete =>
        /\ NoDuplicates(epochSeen)
        /\ epochSeen = img_norm(Slice(train_images, 0, WholeBatches))
        /\ (SameElements(epochSeen, img_norm(train_images))
              <=> num_train_images % trainB = 0)

\* An epoch after a rollover is complete and B does not divide S.
C1_Witness ==
    /\ EpochComplete
    /\ trainB >= 2
    /\ num_train_images % trainB # 0
    /\ Len(epochSeen) = WholeBatches

\* C2: with a fixed batch size B, 1 <= B <= S, train_epochs_completed is 0
\* before the first call, equals floor((k-1) / floor(S/B)) after k >= 1 calls,
\* and no call ever decreases it.
C2_EpochCount ==
    /\ [](trainCalls = 0 => train_epochs_completed = 0)
    /\ [](FixedB /\ trainCalls >= 1 =>
            train_epochs_completed
              = (trainCalls - 1) \div (num_train_images \div trainB))
    /\ [][train_epochs_completed' >= train_epochs_completed]_vars

\* Two epochs have been completed with a batch size that does not divide S.
C2_Witness ==
    /\ FixedB
    /\ num_train_images % trainB # 0
    /\ train_epochs_completed = 2
    /\ trainCalls = 2 * (num_train_images \div trainB) + 1

\* The partition size and the stored cursor of the partition the last call
\* read.
RetNum == IF ret.op = "valid" THEN num_valid_images ELSE num_test_images
RetCursor == IF ret.op = "valid" THEN index_in_valid_epoch ELSE index_in_test_epoch

\* C3: next_valid_batch(n) / next_test_batch(n) with cursor + n > partition
\* size returns effective batch size 1 and advances the cursor by 1; otherwise
\* the effective batch size is n and the cursor advances by n; the returned
\* cursor position is the new stored cursor.
C3_EvalClamp ==
    ret.op \in {"valid", "test"} =>
        /\ IF ret.start + ret.requested > RetNum
           THEN ret.batch_size = 1 /\ RetCursor = ret.start + 1
           ELSE ret.batch_size = ret.requested
                /\ RetCursor = ret.start + ret.requested
        /\ ret.end = RetCursor

\* A call asked for more than one element past the end of a partition that
\* still had an element left.
C3_Witness ==
    /\ ret.op \in {"valid", "test"}
    /\ ret.requested >= 2
    /\ ret.start < RetNum
    /\ ret.start + ret.requested > RetNum
    /\ ret.batch_size = 1


\* ----------------------------------------------------------- claims: Model
\* load_config_yaml returned.
Loaded == Len(completed) >= 1

\* config_dict is given, flags name a YAML file that exists, and every key of
\* the file, nested keys included, is a key of config_dict with a value of the
\* same type.
YamlFits ==
    /\ config_given
    /\ Has(flags, "YAML_FILE")
    /\ yaml_file.exists
    /\ \A k \in Keys :
          Has(yaml_file.content, k) =>
            /\ Has(config_arg, k)
            /\ config_arg[k].t = yaml_file.content[k].t
            /\ \A s \in SubKeys :
                  yaml_file.content[k].sub[s] # 0 => config_arg[k].sub[s] # 0

\* C4 (as stated): with config_dict given and a fitting YAML file named, the
\* merged value of every key is the flags value if flags define the key, else
\* the YAML value if the file defines it, else the dict value.
C4_FlagsYamlDict ==
    (Loaded /\ YamlFits) =>
        \A k \in Keys :
            cfg[k] = IF Has(flags, k) THEN flags[k]
                     ELSE IF Has(yaml_file.content, k) THEN yaml_file.content[k]
                     ELSE config_arg[k]

\* The dict's nested mapping d with the YAML file's nested mapping y merged
\* into it entry by entry.
NestedMerge(y, d) ==
    DictV([s \in SubKeys |-> IF y.sub[s] # 0 THEN y.sub[s] ELSE d.sub[s]])

\* C4 (amended): with config_dict given and a fitting YAML file named,
\* load_config_yaml returns a mapping in which the value of every key is the
\* flags value if flags define the key; else, if the file defines it, the
\* YAML value when that is no nested mapping and the dict's nested mapping
\* with the YAML entries merged over it when it is one; else the dict value.
C4_FlagsYamlDictNested ==
    (started # <<>> /\ YamlFits) =>
        /\ Loaded
        /\ \A k \in Keys :
              cfg[k] = IF Has(flags, k) THEN flags[k]
                       ELSE IF Has(yaml_file.content, k)
                            THEN IF yaml_file.content[k].t = "dict"
                                 THEN NestedMerge(yaml_file.content[k], config_arg[k])
                                 ELSE yaml_file.content[k]
                       ELSE config_arg[k]

\* A is defined by all three sources and the merge kept the flags value; N
\* is a nested mapping of the file and of the dict, the dict's with an entry
\* the file's lacks, and flags do not define N.
C4_Witness ==
    /\ Loaded
    /\ YamlFits
    /\ Has(flags, "A") /\ Has(yaml_file.content, "A") /\ Has(config_arg, "A")
    /\ cfg["A"] = flags["A"]
    /\ ~Has(flags, "N")
    /\ yaml_file.content["N"].t = "dict"
    /\ yaml_file.content["N"].sub["x"] # 0
    /\ yaml_file.content["N"].sub["y"] = 0
    /\ config_arg["N"].sub["y"] # 0

\* C5: with config_dict given and no YAML file named in flags, the mapping
\* load_config_yaml returns holds every key of flags with the flags value and
\* every other key of the dict with the dict value.
C5_FlagsOverDict ==
    (Loaded /\ config_given /\ ~Has(flags, "YAML_FILE")) =>
        \A k \in Keys :
            cfg[k] = IF Has(flags, k) THEN flags[k] ELSE config_arg[k]

\* C6: when the merged configuration lacks MODEL_DIRECTORY or SAVE_DIRECTORY,
\* the construction ends in check_dict_keys with exit(), after the message
\* naming a missing key, and no later stage is ever started.
C6_MissingCrucialKeyExits ==
    (Len(started) >= 2
       /\ (~Has(cfg, "MODEL_DIRECTORY") \/ ~Has(cfg, "SAVE_DIRECTORY"))) =>
        /\ outcome = "exit"
        /\ exc = "SystemExit"
        /\ started = <<"load_config_yaml", "check_dict_keys">>
        /\ completed = <<"load_config_yaml">>
        /\ init_events = <<>>
        /\ printed # <<>>
        /\ printed[Len(printed)][1] = "You must define"
        /\ printed[Len(printed)][2] \in {"MODEL_DIRECTORY", "SAVE_DIRECTORY"}
        /\ ~Has(cfg, printed[Len(printed)][2])

\* check_dict_keys ended the construction of a Model whose configuration
\* has MODEL_DIRECTORY and lacks SAVE_DIRECTORY.
C6_Witness ==
    /\ outcome = "exit"
    /\ started = <<"load_config_yaml", "check_dict_keys">>
    /\ Has(cfg, "MODEL_DIRECTORY")
    /\ ~Has(cfg, "SAVE_DIRECTORY")

\* The name a model variable is matched under: its name without an optional
\* leading 'model/'.
MatchedName(name) ==
    IF Len(name) >= 2 /\ name[1] = "model" THEN Tail(name) ELSE name

InEvents(e) == \E i \in 1..Len(init_events) : init_events[i] = e

Printed(m) == \E i \in 1..Len(printed) : printed[i][1] = m

\* C7: a slim restore in which no model variable name matches a name of the
\* checkpoint prints the diagnostic and ends the process before a Saver is
\* built and before a restore is attempted.
C7_SlimNoMatchIsFatal ==
    (InEvents("_restore_slim") /\ checkpoint.ok
       /\ \A v \in model_variables : MatchedName(v) \notin checkpoint.names) =>
        /\ outcome = "exit"
        /\ Printed("Check the SLIM checkpoint filename. No model variables matched the checkpoint variables.")
        /\ ~InEvents("tf.train.Saver")
        /\ ~InEvents("saver.restore")

\* C8: a slim restore hands the Saver exactly the model variables whose name,
\* without an optional leading 'model/', is a name of the checkpoint, each
\* under that name: 'model/x' as 'x', and a name without the prefix unchanged.
C8_MatchedWithoutPrefix ==
    (InEvents("_restore_slim") /\ checkpoint.ok) =>
        variables_to_restore =
            {MatchedName(v) :
                v \in {w \in model_variables : MatchedName(w) \in checkpoint.names}}

\* The steps of _initialize_model that stand for a restore policy.
PolicySteps == {"_restore_meta", "_restore_slim", "scratch"}

\* C9: _initialize_model runs the local and the global variable initializer
\* first and then exactly one restore policy: meta if RESTORE_META == 1, else
\* slim if RESTORE_SLIM == 1, else none.
C9_OneRestorePolicy ==
    init_events # <<>> =>
        /\ Len(init_events) >= 3
        /\ init_events[1] = "local_variables_initializer"
        /\ init_events[2] = "global_variables_initializer"
        /\ init_events[3] =
              (IF cfg["RESTORE_META"] = IntV(1) THEN "_restore_meta"
               ELSE IF cfg["RESTORE_SLIM"] = IntV(1) THEN "_restore_slim"
               ELSE "scratch")
        /\ \A i \in 1..Len(init_events) :
              init_events[i] \in PolicySteps => i = 3

\* _initialize_model ran with RESTORE_META and RESTORE_SLIM both 1.
C9_Witness ==
    /\ init_events # <<>>
    /\ cfg["RESTORE_META"] = IntV(1)
    /\ cfg["RESTORE_SLIM"] = IntV(1)
    /\ init_events[3] = "_restore_meta"

\* The stages of the construction in the order the lifecycle gives them.
LifecycleOrder ==
    <<"load_config_yaml", "check_dict_keys", "_check_file_io",
      "_data", "_set_seed", "_network", "_optimizer", "_summaries",
      "_set_tf_functions", "_initialize_model">>

IsPrefix(s, t) == Len(s) <= Len(t) /\ \A i \in 1..Len(s) : s[i] = t[i]

\* C10: the stages of the construction start in the lifecycle's order, each
\* only after every earlier stage has completed; a stage that raises or exits
\* is the last one started, and the construction is complete exactly when
\* every stage has completed.
C10_LifecycleOrder ==
    /\ [](/\ IsPrefix(started, LifecycleOrder)
          /\ IsPrefix(completed, started)
          /\ IF outcome \in {"raise", "exit"}
             THEN Len(started) = Len(completed) + 1
             ELSE started = completed
          /\ outcome = "constructed" <=> completed = LifecycleOrder
          /\ exc = "NotImplementedError" =>
                /\ outcome = "raise"
                /\ started[Len(started)] \in {"_data", "_network", "_optimizer"})
    /\ [][(outcome \in {"raise", "exit"}) =>
             (started' = started /\ completed' = completed /\ outcome' = outcome)]_vars

\* _network raised NotImplementedError after _data and _set_seed completed.
C10_Witness ==
    /\ outcome = "raise"
    /\ exc = "NotImplementedError"
    /\ started[Len(started)] = "_network"
    /\ completed = <<"load_config_yaml", "check_dict_keys", "_check_file_io",
                     "_data", "_set_seed">>


\* ---------------------------------------------------------- claims: Layers
\* The number of the first i scopes entered that carry the given prefix.
CallsOfKind(prefix, i) == Cardinality({j \in 1..i : scopes[j][1] = prefix})

\* C11: on one builder, the k-th call of a kind enters the scope
\* '<kind>_k', numbered by that kind's own counter, and no two calls enter
\* the same scope.
C11_ScopeNamesUnique ==
    /\ \A i \in 1..Len(scopes) : scopes[i][2] = CallsOfKind(scopes[i][1], i)
    /\ \A i, j \in 1..Len(scopes) : scopes[i] = scopes[j] => i = j

\* The last call was convnet or deconvnet; the depth it was asked for; and
\* whether a list it was given differs from the depth in length.
StackCall == lret.op \in {"convnet", "deconvnet"}

Depth == Len(lret.args.filter_size)

Mismatch ==
    \E p \in ListNames :
        lret.args.lists[p].given /\ Len(lret.args.lists[p].items) # Depth

\* Entry l of list p as the call was given it, the single-layer default
\* where the list was left out.
GivenAt(p, l) ==
    IF lret.args.lists[p].given THEN lret.args.lists[p].items[l]
    ELSE stack_default(p)

ExpectedCall(l) ==
    [filter_size |-> lret.args.filter_size[l],
     output_channels |-> GivenAt("output_channels", l),
     stride |-> GivenAt("stride", l),
     padding |-> GivenAt("padding", l),
     activation_fn |-> GivenAt("activation_fn", l),
     b_value |-> GivenAt("b_value", l),
     s_value |-> GivenAt("s_value", l),
     bn |-> GivenAt("bn", l)]

\* C12: a convnet / deconvnet call given a list whose length differs from
\* the depth fails its assertion before any layer is built, leaving the
\* current tensor and the counters as they were; with all lengths equal to
\* the depth, the single-layer method is called with the l-th entry of every
\* list, in list order, depth times on a 4-D tensor.
C12_StackLengths ==
    StackCall =>
        /\ Mismatch =>
              /\ lret.err = "AssertionError"
              /\ lret.invoked = <<>>
              /\ input = lret.input0
              /\ count = lret.count0
        /\ ~Mismatch =>
              /\ Len(lret.invoked) <= Depth
              /\ \A l \in 1..Len(lret.invoked) : lret.invoked[l] = ExpectedCall(l)
              /\ lret.input0.rank = 4 =>
                    /\ lret.err = "none"
                    /\ Len(lret.invoked) = Depth
                    /\ count[IF lret.op = "convnet" THEN "conv" ELSE "deconv"]
                         = lret.count0[IF lret.op = "convnet" THEN "conv" ELSE "deconv"]
                             + Depth

\* A deconvnet call with a list of the wrong length, made after a convnet
\* call built two layers.
C12_Witness ==
    /\ lret.op = "deconvnet"
    /\ Mismatch
    /\ lret.err = "AssertionError"
    /\ lret.count0["conv"] = 2
    /\ input.ops # <<>>

\* C13: res_layer on a 4-D tensor completes, and the current tensor becomes
\* the sum of the main path and the shortcut: the shortcut is the input
\* itself exactly when stride is 1 and the input has output_channels
\* channels, a 1x1 convolution of it otherwise; the main path is two
\* convolutions, three with bottle, each right after batch norm and the
\* activation.
C13_ResLayerSum ==
    (lret.op = "res_layer" /\ lret.input0.rank = 4) =>
        LET a == lret.args
            x0 == lret.input0
            project == (a.stride # 1) \/ (x0.channels # a.output_channels)
            n0 == Len(x0.ops)
            top == input.ops[Len(input.ops)]
            main == SubSeq(input.ops, n0 + 1, Len(input.ops) - 1)
            convs == {i \in 1..Len(main) : main[i].op = "conv2d"}
        IN  /\ lret.err = "none"
            /\ Len(input.ops) > n0
            /\ top.op = "add_tensors"
            /\ ~project => top.other = x0.ops
            /\ project =>
                  /\ Len(top.other) = n0 + 2
                  /\ SubSeq(top.other, 1, n0) = x0.ops
                  /\ top.other[n0 + 1].op = "conv2d"
                  /\ top.other[n0 + 1].attr[1] = 1
            /\ Cardinality(convs) = IF a.bottle THEN 3 ELSE 2
            /\ \A i \in convs :
                  /\ i > 2
                  /\ main[i - 2].op = "batch_norm"
                  /\ main[i - 1].op = a.activation_fn

\* ----------------------------------------------------- claims: Model.step
\* C14: the step counter is 1 on a constructed Model, the i-th
\* _record_training_step call records one summary under global step i, and
\* after k calls the counter is k + 1.
C14_StepCounter ==
    /\ outcome = "constructed" => step = Len(writer) + 1
    /\ outcome # "constructed" => writer = <<>>
    /\ \A i \in 1..Len(writer) : writer[i].global_step = i

C14_Witness == Len(writer) = MaxSteps /\ step = MaxSteps + 1


\* ------------------------------------------------- claims: Data, cursors
\* C15: while no call was given a batch size above the size of its
\* partition, the cursor of every partition lies between 0 and the size of
\* the partition.
C15_CursorsInPartition ==
    ~oversized =>
        /\ 0 <= index_in_train_epoch /\ index_in_train_epoch <= num_train_images
        /\ 0 <= index_in_valid_epoch /\ index_in_valid_epoch <= num_valid_images
        /\ 0 <= index_in_test_epoch /\ index_in_test_epoch <= num_test_images

\* The image img_norm made a normalized pixel from.
img_of(y) == (y + max_val) \div 2

\* C18: the train partition holds the pairs that were loaded, every image
\* next to its own label, and in every batch next_train_batch returns the
\* i-th label is the label of the i-th image.
C18_LabelsFollowImages ==
    /\ Len(train_images) = num_train_images
    /\ Len(train_labels) = num_train_images
    /\ {train_images[i] : i \in 1..Len(train_images)}
         = (num_valid_images + 1)..(num_valid_images + num_train_images)
    /\ \A i \in 1..num_train_images : train_labels[i] = LabelOf(train_images[i])
    /\ ret.op = "train" =>
          /\ Len(ret.labels) = Len(ret.images)
          /\ \A i \in 1..Len(ret.labels) : ret.labels[i] = LabelOf(img_of(ret.images[i]))

\* A batch of two pairs returned from a partition a reshuffle reordered.
C18_Witness ==
    /\ ret.op = "train"
    /\ Len(ret.labels) >= 2
    /\ train_epochs_completed >= 1
    /\ train_images[1] # num_valid_images + 1

\* C19: next_valid_batch and next_test_batch return as many labels and as
\* many images as the batch size they report.
C19_ReportedSizeIsReturned ==
    ret.op \in {"valid", "test"} =>
        /\ Len(ret.labels) = ret.batch_size
        /\ Len(ret.images) = ret.batch_size

\* C20: a next_train_batch call given more than the partition holds fails
\* its assertion, after it counted one more epoch, reshuffled the partition
\* and set the cursor to the batch size it was given.
C20_AssertAfterUpdate ==
    [][(trainCalls' = trainCalls + 1 /\ ret'.requested > num_train_images) =>
          /\ ret'.raised
          /\ train_epochs_completed' = train_epochs_completed + 1
          /\ index_in_train_epoch' = ret'.requested
          /\ index_in_train_epoch' > num_train_images
          /\ \E perm \in Perms(num_train_images) :
                /\ train_images' = Take(train_images, perm)
                /\ train_labels' = Take(train_labels, perm)]_vars

\* Two failed calls on a partition of two images, the second having
\* reordered what the first left.
C20_Witness ==
    /\ ret.op = "train"
    /\ ret.raised
    /\ train_epochs_completed = 2
    /\ index_in_train_epoch > num_train_images
    /\ num_train_images = 2
    /\ train_images[1] # num_valid_images + 1

\* ------------------------------------------- claims: Model, configuration
\* The step that runs check_dict_keys to its end.
KeysChecked == At("check_dict_keys") /\ pc' = "_check_file_io"

OptionalSet == {optional_keys[i] : i \in 1..Len(optional_keys)}

\* C16: check_dict_keys on a mapping with both required keys keeps every
\* key that is present, sets each absent key of RESTORE_SLIM_FILE,
\* RESTORE_META, RESTORE_SLIM, SEED, GPU to None, an absent RUN_NUM to 0 and
\* an absent NUM_EPOCHS to 1, and adds no other key.
C16_CheckDictKeysFrame ==
    [][KeysChecked =>
          \A k \in Keys :
              cfg'[k] = IF Has(cfg, k) THEN cfg[k]
                        ELSE IF k \in {"RESTORE_SLIM_FILE", "RESTORE_META",
                                       "RESTORE_SLIM", "SEED", "GPU"} THEN NoneV
                        ELSE IF k = "RUN_NUM" THEN IntV(0)
                        ELSE IF k = "NUM_EPOCHS" THEN IntV(1)
                        ELSE Absent]_vars

\* check_dict_keys ran on a mapping that held RUN_NUM and SEED and lacked
\* NUM_EPOCHS and GPU.
C16_Witness ==
    /\ pc = "_check_file_io"
    /\ completed = <<"load_config_yaml", "check_dict_keys">>
    /\ cfg["RUN_NUM"] = IntV(3)
    /\ cfg["SEED"] = IntV(3)
    /\ cfg["NUM_EPOCHS"] = IntV(1)
    /\ cfg["GPU"] = NoneV
    /\ ~Has(cfg, "MODEL_RESTORE")

\* The configuration passed to Model defines MODEL_DIRECTORY and
\* SAVE_DIRECTORY and no other key (config_dict given, so that flags stays
\* as passed).
OnlyRequiredKeys ==
    /\ config_given
    /\ \A k \in Keys :
          (Has(flags, k) \/ Has(config_arg, k))
            <=> k \in {"MODEL_DIRECTORY", "SAVE_DIRECTORY"}

YamlHasUnknownKey ==
    /\ config_given
    /\ Has(flags, "YAML_FILE")
    /\ yaml_file.exists
    /\ \E k \in Keys :
          /\ Has(yaml_file.content, k)
          /\ \/ ~Has(config_arg, k)
             \/ \E s \in SubKeys :
                   yaml_file.content[k].sub[s] # 0 /\ config_arg[k].sub[s] = 0
    /\ \A k \in Keys :
          (Has(yaml_file.content, k) /\ Has(config_arg, k)) =>
              config_arg[k].t = yaml_file.content[k].t

\* C21: a YAML file defining a key that config_dict lacks is rejected: the
\* KeyError '... is not a valid config key' leaves load_config_yaml and the
\* construction, no mapping is returned and no later stage starts.
C21_UnknownYamlKeyRejected ==
    (YamlHasUnknownKey /\ started # <<>>) =>
        /\ outcome = "raise"
        /\ exc = "KeyError"
        /\ started = <<"load_config_yaml">>
        /\ completed = <<>>
        /\ cfg = EmptyCfg

====
